---------------------------- MODULE Spec2Model ----------------------------
(***************************************************************************)
(* Segment countdown timer (foxalabs/demo-countdown).                      *)
(*                                                                         *)
(* The module models                                                       *)
(*   - the segment-list loader shared by both shells (parse_duration,      *)
(*     load_segments, the built-in fallback list),                         *)
(*   - the graphical shell's main loop (main-gui.py, run_gui): one frame   *)
(*     is "read the clock, handle the queued key events, run the time      *)
(*     update / advance / completion block",                               *)
(*   - the terminal shell's main loop (main.py, main),                     *)
(*   - the pure query total_demo_left_secs.                                *)
(*                                                                         *)
(* Text is a sequence of one-character strings.  Time is fixed point:      *)
(* one unit is 1/Sec of a second, so the 0.6 s completion hold is HOLD     *)
(* units and fractional remaining times (10.4 s) are representable.        *)
(***************************************************************************)
EXTENDS Integers, Sequences, FiniteSets, TLC

VARIABLES
    file,             \* segments.txt as found at import time
    SEGMENTS,         \* module-level list of <<name, seconds>>
    total_segments,   \* run_gui: len(SEGMENTS) as cached by the loop
    i,                \* run_gui: current segment index (0-based)
    paused,
    muted,
    status,           \* "RUNNING" | "PAUSED" | "COMPLETED"
    duration,         \* effective duration of the active segment (units)
    remaining,        \* time left in the active segment (units, may be < 0)
    last_time,        \* clock value read at the top of the current frame
    dt,               \* the current frame's delta (now - last_time)
    completed_until,  \* 0 = no hold armed, else the deadline timestamp
    demo_started,
    demo_start_ts,
    demo_end_ts,
    editor_mode,
    ed_sel_row,
    ed_sel_col,
    ed_editing,
    ed_buffer,
    running,
    pc                \* where the process is: "import", "loaded", "main";
                      \* run_gui: "play" / "editor" / "drained" (inside a
                      \* frame, by the branch that handles its events),
                      \* "exited", "crashed"; main: "cli_loop" (the inner
                      \* loop's test), "cli_key" (the key poll), "cli_done",
                      \* "cli_quit"

vars == <<file, SEGMENTS, total_segments, i, paused, muted, status, duration,
          remaining, last_time, dt, completed_until, demo_started,
          demo_start_ts, demo_end_ts, editor_mode, ed_sel_row, ed_sel_col,
          ed_editing, ed_buffer, running, pc>>

-----------------------------------------------------------------------------
(* Bounds of the model.                                                    *)

\* longest segments.txt (in lines) the loader is run on
MaxLines == 3

-----------------------------------------------------------------------------
(* Text helpers: Python's str methods on sequences of characters.          *)

Uppers == <<"A", "B", "C", "D", "E", "F", "G", "H", "I", "J", "K", "L", "M",
            "N", "O", "P", "Q", "R", "S", "T", "U", "V", "W", "X", "Y", "Z">>

Lowers == <<"a", "b", "c", "d", "e", "f", "g", "h", "i", "j", "k", "l", "m",
            "n", "o", "p", "q", "r", "s", "t", "u", "v", "w", "x", "y", "z">>

Digits == <<"0", "1", "2", "3", "4", "5", "6", "7", "8", "9">>

IsSpace(c) == c \in {" ", "\t", "\r", "\n"}

IsDigit(c) == \E k \in 1..Len(Digits) : Digits[k] = c

DigitVal(c) == (CHOOSE k \in 1..Len(Digits) : Digits[k] = c) - 1

\* str.lower() on one character
LowerChar(c) ==
    IF \E k \in 1..Len(Uppers) : Uppers[k] = c
    THEN Lowers[CHOOSE k \in 1..Len(Uppers) : Uppers[k] = c]
    ELSE c

Lower(t) == [k \in 1..Len(t) |-> LowerChar(t[k])]

RECURSIVE LStrip(_)
LStrip(t) ==
    IF t # <<>> /\ IsSpace(Head(t)) THEN LStrip(Tail(t)) ELSE t

RECURSIVE RStrip(_)
RStrip(t) ==
    IF t # <<>> /\ IsSpace(t[Len(t)])
    THEN RStrip(SubSeq(t, 1, Len(t) - 1))
    ELSE t

\* str.strip()
Strip(t) == RStrip(LStrip(t))

\* str.split(sep) for a one-character separator: always at least one part
RECURSIVE Split(_, _)
Split(t, sep) ==
    IF \E k \in 1..Len(t) : t[k] = sep
    THEN LET k == CHOOSE k \in 1..Len(t) :
                      t[k] = sep /\ \A j \in 1..(k - 1) : t[j] # sep
         IN  <<SubSeq(t, 1, k - 1)>> \o Split(SubSeq(t, k + 1, Len(t)), sep)
    ELSE <<t>>

\* A Python call that either returns a value or raises.
Raise == [ok |-> FALSE, val |-> 0]

Return(v) == [ok |-> TRUE, val |-> v]

RECURSIVE DigitsValue(_)
DigitsValue(t) ==
    IF t = <<>> THEN 0
    ELSE 10 * DigitsValue(SubSeq(t, 1, Len(t) - 1)) + DigitVal(t[Len(t)])

\* int(text): surrounding whitespace, an optional sign, one or more digits;
\* anything else raises ValueError.
PyInt(text) ==
    LET t    == Strip(text)
        neg  == t # <<>> /\ Head(t) = "-"
        body == IF t # <<>> /\ Head(t) \in {"-", "+"} THEN Tail(t) ELSE t
    IN  IF body = <<>> \/ \E k \in 1..Len(body) : ~IsDigit(body[k])
        THEN Raise
        ELSE Return(IF neg THEN 0 - DigitsValue(body) ELSE DigitsValue(body))

\* str(n) for an integer n
RECURSIVE NatStr(_)
NatStr(n) ==
    IF n < 10 THEN <<Digits[n + 1]>>
    ELSE NatStr(n \div 10) \o <<Digits[(n % 10) + 1]>>

PyStr(n) == IF n < 0 THEN <<"-">> \o NatStr(0 - n) ELSE NatStr(n)

-----------------------------------------------------------------------------
(* parse_duration and load_segments (identical in both shells).            *)

parse_duration(text) ==
    LET t0 == Strip(text)
    IN  IF t0 = <<>> THEN Raise
        ELSE
        LET t == IF t0[Len(t0)] \in {"s", "S"}
                 THEN SubSeq(t0, 1, Len(t0) - 1) ELSE t0
        IN  IF \E k \in 1..Len(t) : t[k] = ":"
            THEN LET parts == Split(t, ":")
                     ints  == [k \in 1..Len(parts) |-> PyInt(parts[k])]
                 IN  IF \E k \in 1..Len(parts) : ~ints[k].ok THEN Raise
                     ELSE IF Len(parts) = 2
                          THEN Return(ints[1].val * 60 + ints[2].val)
                     ELSE IF Len(parts) = 3
                          THEN Return(ints[1].val * 3600 + ints[2].val * 60
                                      + ints[3].val)
                     ELSE Raise
            ELSE PyInt(t)

W_name == <<"n", "a", "m", "e">>

W_segment == <<"s", "e", "g", "m", "e", "n", "t">>

W_title == <<"t", "i", "t", "l", "e">>

W_duration == <<"d", "u", "r", "a", "t", "i", "o", "n">>

InSeq(x, s) == \E k \in 1..Len(s) : s[k] = x

\* {name: idx for idx, name in enumerate(first)}[key]: the last column so named
HeaderIdx(first, key) ==
    CHOOSE k \in 1..Len(first) :
        first[k] = key /\ \A j \in (k + 1)..Len(first) : first[j] # key

\* the lines the comprehension keeps: not blank, not starting with '#'
KeptLine(ln) == Strip(ln) # <<>> /\ Head(LStrip(ln)) # "#"

\* csv.reader on one line (no quoting in the modelled alphabet)
CsvRow(ln) == Split(ln, ",")

\* first row of the file, cells stripped and lower-cased
FirstCells(rows) == [k \in 1..Len(rows[1]) |-> Lower(Strip(rows[1][k]))]

IsHeader(first) ==
    /\ InSeq(W_duration, first)
    /\ (InSeq(W_name, first) \/ InSeq(W_segment, first) \/ InSeq(W_title, first))

\* header_map.get("name", header_map.get("segment", header_map.get("title", 0)))
\* as a 1-based column
NameCol(first) ==
    IF InSeq(W_name, first) THEN HeaderIdx(first, W_name)
    ELSE IF InSeq(W_segment, first) THEN HeaderIdx(first, W_segment)
    ELSE IF InSeq(W_title, first) THEN HeaderIdx(first, W_title)
    ELSE 1

\* The body of the per-row try block: the segment the row yields, or Raise
\* when indexing the row or parse_duration raises.
RowSegment(row, hasHeader, first) ==
    IF hasHeader
    THEN IF NameCol(first) > Len(row) \/ HeaderIdx(first, W_duration) > Len(row)
         THEN Raise
         ELSE LET secs == parse_duration(Strip(row[HeaderIdx(first, W_duration)]))
              IN  IF secs.ok
                  THEN Return(<<Strip(row[NameCol(first)]), secs.val>>)
                  ELSE Raise
    ELSE LET dur_text == IF Len(row) > 1 THEN Strip(row[2]) ELSE <<>>
             secs     == parse_duration(dur_text)
         IN  IF secs.ok THEN Return(<<Strip(row[1]), secs.val>>) ELSE Raise

\* the row loop with `break` for `continue`: it stops at the first bad row
RECURSIVE RowsSegments_Break(_, _, _)
RowsSegments_Break(rows, hasHeader, first) ==
    IF rows = <<>> THEN <<>>
    ELSE LET r == RowSegment(Head(rows), hasHeader, first)
         IN  IF Head(rows) # <<>> /\ r.ok
             THEN <<r.val>> \o RowsSegments_Break(Tail(rows), hasHeader, first)
             ELSE <<>>

RECURSIVE RowsSegments(_, _, _)
RowsSegments(rows, hasHeader, first) ==
    IF rows = <<>> THEN <<>>
    ELSE LET r == RowSegment(Head(rows), hasHeader, first)
         IN  (IF Head(rows) # <<>> /\ r.ok THEN <<r.val>> ELSE <<>>)
             \o RowsSegments(Tail(rows), hasHeader, first)

RECURSIVE KeptLines(_)
KeptLines(lines) ==
    IF lines = <<>> THEN <<>>
    ELSE (IF KeptLine(Head(lines)) THEN <<Head(lines)>> ELSE <<>>)
         \o KeptLines(Tail(lines))

load_segments(f) ==
    IF ~f.exists THEN <<>>
    ELSE LET lines == KeptLines(f.lines)
             rows  == [k \in 1..Len(lines) |-> CsvRow(lines[k])]
         IN  IF lines = <<>> THEN <<>>
             ELSE LET first     == FirstCells(rows)
                      hasHeader == IsHeader(first)
                  IN  RowsSegments(IF hasHeader THEN Tail(rows) ELSE rows,
                                   hasHeader, first)

\* the built-in list used when the file yields no segment
DEFAULT_SEGMENTS ==
    << <<<<"I", "n", "t", "r", "o", "d", "u", "c", "t", "i", "o", "n">>, 60>>,
       <<<<"O", "v", "e", "r", "v", "i", "e", "w">>, 45>>,
       <<<<"F", "e", "a", "t", "u", "r", "e", " ", "D", "e", "m", "o", "n", "s",
           "t", "r", "a", "t", "i", "o", "n">>, 90>>,
       <<<<"T", "e", "c", "h", "n", "i", "c", "a", "l", " ", "D", "e", "t", "a",
           "i", "l", "s">>, 75>>,
       <<<<"Q", "&", "A", " ", "S", "e", "s", "s", "i", "o", "n">>, 30>>,
       <<<<"S", "u", "m", "m", "a", "r", "y">>, 40>>,
       <<<<"C", "l", "o", "s", "i", "n", "g", " ", "R", "e", "m", "a", "r", "k",
           "s">>, 20>> >>


\* what the import leaves in SEGMENTS: the loaded list, or the fallback
StartupSegments(f) ==
    IF load_segments(f) = <<>> THEN DEFAULT_SEGMENTS ELSE load_segments(f)

-----------------------------------------------------------------------------
(* Time and the program's numeric constants.                               *)

\* fixed-point resolution: units per second (one unit = 0.2 s)
Sec == 5

\* the clock value (time.time()) when run_gui starts; any positive epoch time
T0 == 1

\* completion flash: time.time() + 0.6
HOLD == (6 * Sec) \div 10

\* '+' and '-' move the duration by 10 s
STEP_SECS == 10

\* '-' never cuts below 5 s
FLOOR_SECS == 5

\* the editor's "New Segment" lasts 60 s
NEW_SEGMENT_SECS == 60

\* the clock stops advancing at T0 + MaxNow units
MaxNow == 8

\* '+' is not pressed once the duration would exceed MaxDurSecs seconds
MaxDurSecs == 22

\* the editor's 'a' is not pressed once the list holds MaxSegs segments
MaxSegs == 3

\* frame deltas: none, 0.4 s (inside the hold), 0.6 s (exactly the hold)
DTs == {0, 2, HOLD}

Min(a, b) == IF a < b THEN a ELSE b

Max(a, b) == IF a > b THEN a ELSE b

\* int() for math.ceil: the fraction is dropped
CeilSecs_Truncates(x) == x \div Sec

\* math.ceil of a fixed-point value, in whole seconds
CeilSecs(x) == 0 - ((0 - x) \div Sec)

\* the planned duration of segment k (0-based), as float(SEGMENTS[k][1])
Planned(segs, k) == segs[k + 1][2] * Sec

RECURSIVE SumSecs(_)
SumSecs(segs) ==
    IF segs = <<>> THEN 0 ELSE Head(segs)[2] + SumSecs(Tail(segs))

\* total_demo_left_secs(current_index, remaining_current), in whole seconds
total_demo_left_secs(segs, current_index, remaining_current) ==
    LET future == SumSecs(SubSeq(segs, current_index + 2, Len(segs)))
    IN  Max(0, CeilSecs(Max(0, remaining_current)) + future)

-----------------------------------------------------------------------------
(* The start of the graphical shell.                                       *)

L_header == <<"n", "a", "m", "e", ",", "d", "u", "r", "a", "t", "i", "o", "n">>

L_A12 == <<"A", ",", "1", "2">>

L_B5 == <<"B", ",", "5">>

L_A1 == <<"A", ",", "1">>

L_B002 == <<"B", ",", "0", ":", "0", "2">>

L_Z0 == <<"Z", ",", "0">>

L_Y2 == <<"Y", ",", "2">>

NoFile == [exists |-> FALSE, lines |-> <<>>]

File(lines) == [exists |-> TRUE, lines |-> lines]

\* the segment files the graphical shell is started on
EngineFiles ==
    { File(<<L_header, L_A12, L_B5>>),
      File(<<L_A1, L_B002>>),
      File(<<L_A1, L_Z0>>),
      File(<<L_Y2>>) }

\* run_gui, from its first line to the top of the first frame
RunGuiStart(segs) ==
    /\ total_segments = Len(segs)
    /\ i = 0
    /\ paused = TRUE
    /\ muted = FALSE
    /\ status = "RUNNING"
    /\ duration = (IF Len(segs) # 0 THEN Planned(segs, 0) ELSE 0)
    /\ remaining = (IF Len(segs) # 0 THEN Planned(segs, 0) ELSE 0)
    /\ last_time = T0
    /\ dt = 0
    /\ completed_until = 0
    /\ demo_started = FALSE
    /\ demo_start_ts = 0
    /\ demo_end_ts = 0
    /\ editor_mode = FALSE
    /\ ed_sel_row = 0
    /\ ed_sel_col = 1
    /\ ed_editing = FALSE
    /\ ed_buffer = <<>>
    /\ running = TRUE

\* the graphical shell, from the import to the top of the first frame
InitGui ==
    /\ file \in EngineFiles
    /\ SEGMENTS = StartupSegments(file)
    /\ RunGuiStart(SEGMENTS)
    /\ pc = "play"

-----------------------------------------------------------------------------
(* Play-mode key handlers.  A handler runs inside the frame whose clock    *)
(* value is last_time; time.time() inside a handler reads that value.      *)

InPlay == pc = "play"

\* Esc / q in play mode, or the window's close button in either mode: the
\* loop ends.  (The rest of the quitting frame runs the same handlers on a
\* process that is about to exit; it is not modelled.)
Quit ==
    /\ pc \in {"play", "editor"}
    /\ running' = FALSE
    /\ pc' = "exited"
    /\ UNCHANGED <<file, SEGMENTS, total_segments, i, paused, muted, status,
                   duration, remaining, last_time, dt, completed_until,
                   demo_started, demo_start_ts, demo_end_ts, editor_mode,
                   ed_sel_row, ed_sel_col, ed_editing, ed_buffer>>

\* Space without its `time.time() >= completed_until`
KeySpace_NoHoldGuard ==
    /\ InPlay
    /\ IF total_segments > 0
       THEN /\ paused' = ~paused
            /\ IF paused /\ ~demo_started
               THEN demo_started' = TRUE /\ demo_start_ts' = last_time
               ELSE UNCHANGED <<demo_started, demo_start_ts>>
       ELSE UNCHANGED <<paused, demo_started, demo_start_ts>>
    /\ UNCHANGED <<file, SEGMENTS, total_segments, i, muted, status, duration,
                   remaining, last_time, dt, completed_until, demo_end_ts,
                   editor_mode, ed_sel_row, ed_sel_col, ed_editing, ed_buffer,
                   running, pc>>

KeySpace ==
    /\ InPlay
    /\ IF total_segments > 0 /\ last_time >= completed_until
       THEN /\ paused' = ~paused
            /\ IF paused /\ ~demo_started
               THEN demo_started' = TRUE /\ demo_start_ts' = last_time
               ELSE UNCHANGED <<demo_started, demo_start_ts>>
       ELSE UNCHANGED <<paused, demo_started, demo_start_ts>>
    /\ UNCHANGED <<file, SEGMENTS, total_segments, i, muted, status, duration,
                   remaining, last_time, dt, completed_until, demo_end_ts,
                   editor_mode, ed_sel_row, ed_sel_col, ed_editing, ed_buffer,
                   running, pc>>

\* 'n' that does nothing while muted, as if the early return of beep(muted)
\* skipped the handler's remaining statements
KeyNext_SkipsWhenMuted ==
    /\ InPlay
    /\ IF i < total_segments /\ ~muted
       THEN /\ status' = "COMPLETED"
            /\ remaining' = 0
            /\ completed_until' = last_time + HOLD
       ELSE UNCHANGED <<status, remaining, completed_until>>
    /\ UNCHANGED <<file, SEGMENTS, total_segments, i, paused, muted, duration,
                   last_time, dt, demo_started, demo_start_ts, demo_end_ts,
                   editor_mode, ed_sel_row, ed_sel_col, ed_editing, ed_buffer,
                   running, pc>>

KeyNext ==
    /\ InPlay
    /\ IF i < total_segments
       THEN /\ status' = "COMPLETED"
            /\ remaining' = 0
            /\ completed_until' = last_time + HOLD
       ELSE UNCHANGED <<status, remaining, completed_until>>
    /\ UNCHANGED <<file, SEGMENTS, total_segments, i, paused, muted, duration,
                   last_time, dt, demo_started, demo_start_ts, demo_end_ts,
                   editor_mode, ed_sel_row, ed_sel_col, ed_editing, ed_buffer,
                   running, pc>>

KeyPrev ==
    /\ InPlay
    /\ IF i > 0
       THEN /\ i' = i - 1
            /\ duration' = Planned(SEGMENTS, i - 1)
            /\ remaining' = Planned(SEGMENTS, i - 1)
            /\ paused' = FALSE
            /\ status' = "RUNNING"
            /\ completed_until' = 0
       ELSE UNCHANGED <<i, duration, remaining, paused, status, completed_until>>
    /\ UNCHANGED <<file, SEGMENTS, total_segments, muted, last_time, dt,
                   demo_started, demo_start_ts, demo_end_ts, editor_mode,
                   ed_sel_row, ed_sel_col, ed_editing, ed_buffer, running, pc>>

KeyPlus ==
    /\ InPlay
    /\ duration + STEP_SECS * Sec <= MaxDurSecs * Sec
    /\ IF i < total_segments /\ last_time >= completed_until
       THEN /\ duration' = duration + STEP_SECS * Sec
            /\ remaining' = remaining + STEP_SECS * Sec
       ELSE UNCHANGED <<duration, remaining>>
    /\ UNCHANGED <<file, SEGMENTS, total_segments, i, paused, muted, status,
                   last_time, dt, completed_until, demo_started, demo_start_ts,
                   demo_end_ts, editor_mode, ed_sel_row, ed_sel_col, ed_editing,
                   ed_buffer, running, pc>>

\* KeyMinus without the floor: the cut is always the full step
KeyMinus_NoFloor ==
    /\ InPlay
    /\ IF /\ i < total_segments /\ last_time >= completed_until
          /\ duration > FLOOR_SECS * Sec
       THEN /\ duration' = duration - STEP_SECS * Sec
            /\ remaining' = Min(remaining, duration - STEP_SECS * Sec)
       ELSE UNCHANGED <<duration, remaining>>
    /\ UNCHANGED <<file, SEGMENTS, total_segments, i, paused, muted, status,
                   last_time, dt, completed_until, demo_started, demo_start_ts,
                   demo_end_ts, editor_mode, ed_sel_row, ed_sel_col, ed_editing,
                   ed_buffer, running, pc>>

KeyMinus ==
    /\ InPlay
    /\ IF /\ i < total_segments /\ last_time >= completed_until
          /\ duration > FLOOR_SECS * Sec
       THEN LET cut == Min(STEP_SECS * Sec, duration - FLOOR_SECS * Sec)
            IN  /\ duration' = duration - cut
                /\ remaining' = Min(remaining, duration - cut)
       ELSE UNCHANGED <<duration, remaining>>
    /\ UNCHANGED <<file, SEGMENTS, total_segments, i, paused, muted, status,
                   last_time, dt, completed_until, demo_started, demo_start_ts,
                   demo_end_ts, editor_mode, ed_sel_row, ed_sel_col, ed_editing,
                   ed_buffer, running, pc>>

KeyMute ==
    /\ InPlay
    /\ muted' = ~muted
    /\ UNCHANGED <<file, SEGMENTS, total_segments, i, paused, status, duration,
                   remaining, last_time, dt, completed_until, demo_started,
                   demo_start_ts, demo_end_ts, editor_mode, ed_sel_row,
                   ed_sel_col, ed_editing, ed_buffer, running, pc>>

KeyEdit ==
    /\ InPlay
    /\ editor_mode' = TRUE
    /\ paused' = TRUE
    /\ ed_sel_row' = Max(0, Min(i, total_segments - 1))
    /\ ed_sel_col' = 1
    /\ ed_editing' = FALSE
    /\ UNCHANGED <<file, SEGMENTS, total_segments, i, muted, status, duration,
                   remaining, last_time, dt, completed_until, demo_started,
                   demo_start_ts, demo_end_ts, ed_buffer, running, pc>>

-----------------------------------------------------------------------------
(* Editor-mode key handlers (the frame started with editor_mode set).      *)

InEditor == pc = "editor"

W_New_Segment == <<"N", "e", "w", " ", "S", "e", "g", "m", "e", "n", "t">>

\* list.insert(k, x) for 0 <= k <= len
Insert(segs, k, x) ==
    SubSeq(segs, 1, k) \o <<x>> \o SubSeq(segs, k + 1, Len(segs))

\* del list[k] for 0 <= k < len
Delete(segs, k) ==
    SubSeq(segs, 1, k) \o SubSeq(segs, k + 2, Len(segs))

\* Esc / e: leave the editor; the `break` drops the frame's other events
EdExit ==
    /\ InEditor
    /\ editor_mode' = FALSE
    /\ pc' = "drained"
    /\ UNCHANGED <<file, SEGMENTS, total_segments, i, paused, muted, status,
                   duration, remaining, last_time, dt, completed_until,
                   demo_started, demo_start_ts, demo_end_ts, ed_sel_row,
                   ed_sel_col, ed_editing, ed_buffer, running>>

EdUp ==
    /\ InEditor /\ ~ed_editing
    /\ ed_sel_row' = Max(0, ed_sel_row - 1)
    /\ UNCHANGED <<file, SEGMENTS, total_segments, i, paused, muted, status,
                   duration, remaining, last_time, dt, completed_until,
                   demo_started, demo_start_ts, demo_end_ts, editor_mode,
                   ed_sel_col, ed_editing, ed_buffer, running, pc>>

EdDown ==
    /\ InEditor /\ ~ed_editing
    /\ ed_sel_row' = Min(total_segments - 1, ed_sel_row + 1)
    /\ UNCHANGED <<file, SEGMENTS, total_segments, i, paused, muted, status,
                   duration, remaining, last_time, dt, completed_until,
                   demo_started, demo_start_ts, demo_end_ts, editor_mode,
                   ed_sel_col, ed_editing, ed_buffer, running, pc>>

\* 'a': insert a new segment after the selected row
EdAdd ==
    /\ InEditor /\ ~ed_editing
    /\ total_segments < MaxSegs
    /\ SEGMENTS' = Insert(SEGMENTS, ed_sel_row + 1,
                          <<W_New_Segment, NEW_SEGMENT_SECS>>)
    /\ total_segments' = Len(SEGMENTS')
    /\ UNCHANGED <<file, i, paused, muted, status, duration, remaining,
                   last_time, dt, completed_until, demo_started, demo_start_ts,
                   demo_end_ts, editor_mode, ed_sel_row, ed_sel_col, ed_editing,
                   ed_buffer, running, pc>>

\* the Delete handler without its adjustment of i
IndexAfterDelete_Keeps == i

\* the index the Delete handler leaves in i before it deletes the row
IndexAfterDelete ==
    IF ed_sel_row < i THEN i - 1
    ELSE IF ed_sel_row = i
         THEN (IF i < total_segments - 1 THEN i ELSE Max(0, i - 1))
         ELSE i

\* Delete: drop the selected row (never the last remaining one) and reload
\* the active segment.  SEGMENTS[i] raises IndexError when i is past the end
\* of the shortened list: the exception leaves run_gui.
EdDelete ==
    /\ InEditor /\ ~ed_editing
    /\ IF total_segments > 1
       THEN /\ i' = IndexAfterDelete
            /\ SEGMENTS' = Delete(SEGMENTS, ed_sel_row)
            /\ total_segments' = Len(SEGMENTS')
            /\ ed_sel_row' = Max(0, Min(ed_sel_row, total_segments' - 1))
            /\ IF i' < total_segments'
               THEN /\ duration' = Planned(SEGMENTS', i')
                    /\ remaining' = Planned(SEGMENTS', i')
                    /\ paused' = TRUE
                    /\ pc' = pc
               ELSE /\ pc' = "crashed"
                    /\ UNCHANGED <<duration, remaining, paused>>
       ELSE UNCHANGED <<i, SEGMENTS, total_segments, ed_sel_row, duration,
                        remaining, paused, pc>>
    /\ UNCHANGED <<file, muted, status, last_time, dt, completed_until,
                   demo_started, demo_start_ts, demo_end_ts, editor_mode,
                   ed_sel_col, ed_editing, ed_buffer, running>>

\* Left / Right / Tab: the other column
EdCol ==
    /\ InEditor /\ ~ed_editing
    /\ ed_sel_col' = (IF ed_sel_col = 2 THEN 1 ELSE 2)
    /\ UNCHANGED <<file, SEGMENTS, total_segments, i, paused, muted, status,
                   duration, remaining, last_time, dt, completed_until,
                   demo_started, demo_start_ts, demo_end_ts, editor_mode,
                   ed_sel_row, ed_editing, ed_buffer, running, pc>>

\* Enter / F2 outside an edit: start editing the selected cell on str(cur)
EdBegin ==
    /\ InEditor /\ ~ed_editing
    /\ ed_buffer' = (IF ed_sel_col = 1 THEN SEGMENTS[ed_sel_row + 1][1]
                     ELSE PyStr(SEGMENTS[ed_sel_row + 1][2]))
    /\ ed_editing' = TRUE
    /\ UNCHANGED <<file, SEGMENTS, total_segments, i, paused, muted, status,
                   duration, remaining, last_time, dt, completed_until,
                   demo_started, demo_start_ts, demo_end_ts, editor_mode,
                   ed_sel_row, ed_sel_col, running, pc>>

\* the longest buffer a typed character is added to
MaxBuf == 2

\* the characters typed into a cell
EdChars == {"-", "1"}

\* KEYDOWN of a key with a character, during an edit: ed_buffer += ch
EdType ==
    /\ InEditor /\ ed_editing
    /\ Len(ed_buffer) < MaxBuf
    /\ \E ch \in EdChars : ed_buffer' = Append(ed_buffer, ch)
    /\ UNCHANGED <<file, SEGMENTS, total_segments, i, paused, muted, status,
                   duration, remaining, last_time, dt, completed_until,
                   demo_started, demo_start_ts, demo_end_ts, editor_mode,
                   ed_sel_row, ed_sel_col, ed_editing, running, pc>>

\* Backspace during an edit: ed_buffer = ed_buffer[:-1]
EdBackspace ==
    /\ InEditor /\ ed_editing
    /\ ed_buffer' = SubSeq(ed_buffer, 1, Len(ed_buffer) - 1)
    /\ UNCHANGED <<file, SEGMENTS, total_segments, i, paused, muted, status,
                   duration, remaining, last_time, dt, completed_until,
                   demo_started, demo_start_ts, demo_end_ts, editor_mode,
                   ed_sel_row, ed_sel_col, ed_editing, running, pc>>

\* secs = parse_duration(ed_buffer.strip()), or the old secs when it raises
CommittedSecs(secs) ==
    IF parse_duration(Strip(ed_buffer)).ok
    THEN parse_duration(Strip(ed_buffer)).val ELSE secs

\* the commit without its `remaining = min(remaining, duration)`
EdCommit_NoClamp ==
    /\ InEditor /\ ed_editing
    /\ IF 0 <= ed_sel_row /\ ed_sel_row < total_segments
       THEN LET old == SEGMENTS[ed_sel_row + 1]
                nm  == IF ed_sel_col = 1 /\ Strip(ed_buffer) # <<>>
                       THEN Strip(ed_buffer) ELSE old[1]
                secs == IF ed_sel_col = 1 THEN old[2]
                        ELSE CommittedSecs(old[2])
            IN  /\ SEGMENTS' = [SEGMENTS EXCEPT ![ed_sel_row + 1] = <<nm, secs>>]
                /\ IF ed_sel_row = i
                   THEN /\ duration' = secs * Sec
                        /\ remaining' = remaining
                   ELSE UNCHANGED <<duration, remaining>>
       ELSE UNCHANGED <<SEGMENTS, duration, remaining>>
    /\ ed_editing' = FALSE
    /\ UNCHANGED <<file, total_segments, i, paused, muted, status, last_time,
                   dt, completed_until, demo_started, demo_start_ts,
                   demo_end_ts, editor_mode, ed_sel_row, ed_sel_col, ed_buffer,
                   running, pc>>

\* Enter during an edit: store the cell; a commit on the active row reloads
\* duration from the row and clamps remaining to it
EdCommit ==
    /\ InEditor /\ ed_editing
    /\ IF 0 <= ed_sel_row /\ ed_sel_row < total_segments
       THEN LET old == SEGMENTS[ed_sel_row + 1]
                nm  == IF ed_sel_col = 1 /\ Strip(ed_buffer) # <<>>
                       THEN Strip(ed_buffer) ELSE old[1]
                secs == IF ed_sel_col = 1 THEN old[2]
                        ELSE CommittedSecs(old[2])
            IN  /\ SEGMENTS' = [SEGMENTS EXCEPT ![ed_sel_row + 1] = <<nm, secs>>]
                /\ IF ed_sel_row = i
                   THEN /\ duration' = secs * Sec
                        /\ remaining' = Min(remaining, secs * Sec)
                   ELSE UNCHANGED <<duration, remaining>>
       ELSE UNCHANGED <<SEGMENTS, duration, remaining>>
    /\ ed_editing' = FALSE
    /\ UNCHANGED <<file, total_segments, i, paused, muted, status, last_time,
                   dt, completed_until, demo_started, demo_start_ts,
                   demo_end_ts, editor_mode, ed_sel_row, ed_sel_col, ed_buffer,
                   running, pc>>

\* TEXTINPUT during an edit: ed_buffer += ev.text
EdText ==
    /\ InEditor /\ ed_editing
    /\ Len(ed_buffer) < MaxBuf
    /\ \E ch \in EdChars : ed_buffer' = Append(ed_buffer, ch)
    /\ UNCHANGED <<file, SEGMENTS, total_segments, i, paused, muted, status,
                   duration, remaining, last_time, dt, completed_until,
                   demo_started, demo_start_ts, demo_end_ts, editor_mode,
                   ed_sel_row, ed_sel_col, ed_editing, running, pc>>

-----------------------------------------------------------------------------
(* The rest of the frame: time update, advance after the flash, arming of  *)
(* the flash; then the top of the next frame reads the clock.              *)

\* "Time update (only when not in the completed flash window)"
TimeUpdated ==
    total_segments > 0 /\ completed_until = 0

\* the time update without its `if not paused`
RemainingAfterUpdate_IgnoresPause ==
    IF TimeUpdated THEN remaining - dt ELSE remaining

\* the time update counting at least one clock unit per frame
RemainingAfterUpdate_MinStep ==
    IF TimeUpdated /\ ~paused THEN remaining - Max(dt, 1) ELSE remaining

RemainingAfterUpdate ==
    IF TimeUpdated /\ ~paused THEN remaining - dt ELSE remaining

StatusAfterUpdate ==
    IF TimeUpdated THEN (IF paused THEN "PAUSED" ELSE "RUNNING") ELSE status

\* the advance with `>` for `>=`: one frame late at the deadline itself
Advances_Late ==
    total_segments > 0 /\ completed_until # 0 /\ last_time > completed_until

\* "Advance to next segment after completed flash"
Advances ==
    total_segments > 0 /\ completed_until # 0 /\ last_time >= completed_until

\* the arming without its `completed_until == 0.0`: every frame of a hold
\* arms again
Arms_Rearms(i2, rem2, cu2) ==
    total_segments > 0 /\ i2 < total_segments /\ rem2 <= 0

\* "Handle segment completion: arm a single flash only once", evaluated on
\* the values the two blocks before it leave
Arms(i2, rem2, cu2) ==
    total_segments > 0 /\ i2 < total_segments /\ rem2 <= 0 /\ cu2 = 0

\* the advance clamping the index to the last segment instead of to
\* total_segments: the demo never leaves its last segment
FrameBody_ClampsToLast ==
    LET i2   == IF Advances THEN Min(i + 1, total_segments - 1) ELSE i
        into == Advances /\ i + 1 < total_segments
        dur2 == IF into THEN Planned(SEGMENTS, i + 1) ELSE duration
        rem2 == IF into THEN Planned(SEGMENTS, i + 1) ELSE RemainingAfterUpdate
        st2  == IF into THEN "RUNNING" ELSE StatusAfterUpdate
        cu2  == IF Advances THEN 0 ELSE completed_until
    IN  /\ i' = i2
        /\ duration' = dur2
        /\ remaining' = rem2
        /\ paused' = (IF into THEN FALSE ELSE paused)
        /\ demo_end_ts' =
               (IF Advances /\ i + 1 >= total_segments
                   /\ demo_end_ts = 0 /\ demo_started
                THEN last_time ELSE demo_end_ts)
        /\ IF Arms(i2, rem2, cu2)
           THEN status' = "COMPLETED" /\ completed_until' = last_time + HOLD
           ELSE status' = st2 /\ completed_until' = cu2

\* the advance carrying the overshoot into the next segment: it starts with
\* its planned duration less the time the last one ran over
FrameBody_CarriesOvershoot ==
    LET i2   == IF Advances THEN Min(i + 1, total_segments) ELSE i
        into == Advances /\ i + 1 < total_segments
        dur2 == IF into THEN Planned(SEGMENTS, i + 1) ELSE duration
        rem2 == IF into
                THEN Planned(SEGMENTS, i + 1) + Min(0, RemainingAfterUpdate)
                ELSE RemainingAfterUpdate
        st2  == IF into THEN "RUNNING" ELSE StatusAfterUpdate
        cu2  == IF Advances THEN 0 ELSE completed_until
    IN  /\ i' = i2
        /\ duration' = dur2
        /\ remaining' = rem2
        /\ paused' = (IF into THEN FALSE ELSE paused)
        /\ demo_end_ts' =
               (IF Advances /\ i + 1 >= total_segments
                   /\ demo_end_ts = 0 /\ demo_started
                THEN last_time ELSE demo_end_ts)
        /\ IF Arms(i2, rem2, cu2)
           THEN status' = "COMPLETED" /\ completed_until' = last_time + HOLD
           ELSE status' = st2 /\ completed_until' = cu2

FrameBody ==
    LET i2   == IF Advances THEN Min(i + 1, total_segments) ELSE i
        into == Advances /\ i + 1 < total_segments
        dur2 == IF into THEN Planned(SEGMENTS, i + 1) ELSE duration
        rem2 == IF into THEN Planned(SEGMENTS, i + 1) ELSE RemainingAfterUpdate
        st2  == IF into THEN "RUNNING" ELSE StatusAfterUpdate
        cu2  == IF Advances THEN 0 ELSE completed_until
    IN  /\ i' = i2
        /\ duration' = dur2
        /\ remaining' = rem2
        /\ paused' = (IF into THEN FALSE ELSE paused)
        /\ demo_end_ts' =
               (IF Advances /\ i + 1 >= total_segments
                   /\ demo_end_ts = 0 /\ demo_started
                THEN last_time ELSE demo_end_ts)
        /\ IF Arms(i2, rem2, cu2)
           THEN status' = "COMPLETED" /\ completed_until' = last_time + HOLD
           ELSE status' = st2 /\ completed_until' = cu2

\* One pass through the tail of the loop body, then `now = time.time()`,
\* `dt = now - last_time` at the top of the next iteration; the clock is
\* read at `limit` at the latest.
TickTo(limit) ==
    /\ pc \in {"play", "editor", "drained"}
    /\ FrameBody
    /\ \E d \in DTs :
          /\ last_time + d <= limit
          /\ last_time' = last_time + d
          /\ dt' = d
    /\ pc' = (IF editor_mode THEN "editor" ELSE "play")
    /\ UNCHANGED <<file, SEGMENTS, total_segments, muted, demo_started,
                   demo_start_ts, editor_mode, ed_sel_row, ed_sel_col,
                   ed_editing, ed_buffer, running>>

Tick == TickTo(T0 + MaxNow)


-----------------------------------------------------------------------------
(* The terminal shell (main.py, main).  Its loop keeps the same locals;    *)
(* last_time is its last_tick and dt its delta.  The locals it does not    *)
(* have (completed_until, the demo_* stamps, the editor's) stay at their   *)
(* initial values, and status is "RUNNING" until the loop first sets it.   *)

\* main(), from the import to the first test of the inner loop
InitCli ==
    /\ file \in EngineFiles
    /\ SEGMENTS = StartupSegments(file)
    /\ total_segments = Len(SEGMENTS)
    /\ i = 0
    /\ paused = FALSE
    /\ muted = FALSE
    /\ status = "RUNNING"
    /\ duration = Planned(SEGMENTS, 0)
    /\ remaining = Planned(SEGMENTS, 0)
    /\ last_time = T0
    /\ dt = 0
    /\ completed_until = 0
    /\ demo_started = FALSE
    /\ demo_start_ts = 0
    /\ demo_end_ts = 0
    /\ editor_mode = FALSE
    /\ ed_sel_row = 0
    /\ ed_sel_col = 1
    /\ ed_editing = FALSE
    /\ ed_buffer = <<>>
    /\ running = TRUE
    /\ pc = "cli_loop"

\* the locals of run_gui that main() does not have
guiOnly == <<completed_until, demo_started, demo_start_ts, demo_end_ts,
             editor_mode, ed_sel_row, ed_sel_col, ed_editing, ed_buffer,
             running>>

\* One pass of `while remaining > 0` up to the key poll: read the clock,
\* count down unless paused, draw the status line.
CliTimeTo(limit) ==
    /\ pc = "cli_loop"
    /\ remaining > 0
    /\ \E d \in DTs :
          /\ last_time + d <= limit
          /\ last_time' = last_time + d
          /\ dt' = d
          /\ remaining' = (IF ~paused THEN remaining - d ELSE remaining)
    /\ status' = (IF paused THEN "PAUSED" ELSE "RUNNING")
    /\ pc' = "cli_key"
    /\ UNCHANGED <<file, SEGMENTS, total_segments, i, paused, muted, duration>>
    /\ UNCHANGED guiOnly

CliTime == CliTimeTo(T0 + MaxNow)

\* What follows the inner loop once it is left with index i1 and remaining
\* rem1: `if remaining <= 0: i += 1; time.sleep(0.6)`, then the outer loop's
\* test and, for a further segment, its reload.
CliLeaveTo(limit, i1, rem1) ==
    LET i2 == IF rem1 <= 0 THEN i1 + 1 ELSE i1
        nap == IF rem1 <= 0 THEN HOLD ELSE 0
    IN  /\ last_time + nap <= limit
        /\ i' = i2
        /\ IF i2 < total_segments
           THEN /\ duration' = Planned(SEGMENTS, i2)
                /\ remaining' = Planned(SEGMENTS, i2)
                /\ last_time' = last_time + nap
                /\ pc' = "cli_loop"
           ELSE /\ duration' = duration
                /\ remaining' = rem1
                /\ last_time' = last_time
                /\ pc' = "cli_done"

CliLeave(i1, rem1) == CliLeaveTo(T0 + MaxNow, i1, rem1)

\* the inner loop's test fails: the segment ran out
CliExpireTo(limit) ==
    /\ pc = "cli_loop"
    /\ remaining <= 0
    /\ CliLeaveTo(limit, i, remaining)
    /\ UNCHANGED <<file, SEGMENTS, total_segments, paused, muted, status, dt>>
    /\ UNCHANGED guiOnly

CliExpire == CliExpireTo(T0 + MaxNow)

\* getch() returns None: sleep and test the loop again
CliNoKey ==
    /\ pc = "cli_key"
    /\ pc' = "cli_loop"
    /\ UNCHANGED <<file, SEGMENTS, total_segments, i, paused, muted, status,
                   duration, remaining, last_time, dt>>
    /\ UNCHANGED guiOnly

CliSpace ==
    /\ pc = "cli_key"
    /\ paused' = ~paused
    /\ pc' = "cli_loop"
    /\ UNCHANGED <<file, SEGMENTS, total_segments, i, muted, status, duration,
                   remaining, last_time, dt>>
    /\ UNCHANGED guiOnly

\* 'n': remaining = 0; break
CliNextTo(limit) ==
    /\ pc = "cli_key"
    /\ CliLeaveTo(limit, i, 0)
    /\ UNCHANGED <<file, SEGMENTS, total_segments, paused, muted, status, dt>>
    /\ UNCHANGED guiOnly

CliNext == CliNextTo(T0 + MaxNow)

\* 'p': i = max(0, i - 1); break
CliPrevTo(limit) ==
    /\ pc = "cli_key"
    /\ CliLeaveTo(limit, Max(0, i - 1), remaining)
    /\ UNCHANGED <<file, SEGMENTS, total_segments, paused, muted, status, dt>>
    /\ UNCHANGED guiOnly

CliPrev == CliPrevTo(T0 + MaxNow)

CliPlus ==
    /\ pc = "cli_key"
    /\ duration + STEP_SECS * Sec <= MaxDurSecs * Sec
    /\ duration' = duration + STEP_SECS * Sec
    /\ remaining' = remaining + STEP_SECS * Sec
    /\ pc' = "cli_loop"
    /\ UNCHANGED <<file, SEGMENTS, total_segments, i, paused, muted, status,
                   last_time, dt>>
    /\ UNCHANGED guiOnly

\* CliMinus moving remaining with the duration, as '+' does
CliMinus_NoClamp ==
    /\ pc = "cli_key"
    /\ IF duration > FLOOR_SECS * Sec
       THEN LET cut == Min(STEP_SECS * Sec, duration - FLOOR_SECS * Sec)
            IN  /\ duration' = duration - cut
                /\ remaining' = remaining - cut
       ELSE UNCHANGED <<duration, remaining>>
    /\ pc' = "cli_loop"
    /\ UNCHANGED <<file, SEGMENTS, total_segments, i, paused, muted, status,
                   last_time, dt>>
    /\ UNCHANGED guiOnly

CliMinus ==
    /\ pc = "cli_key"
    /\ IF duration > FLOOR_SECS * Sec
       THEN LET cut == Min(STEP_SECS * Sec, duration - FLOOR_SECS * Sec)
            IN  /\ duration' = duration - cut
                /\ remaining' = Min(remaining, duration - cut)
       ELSE UNCHANGED <<duration, remaining>>
    /\ pc' = "cli_loop"
    /\ UNCHANGED <<file, SEGMENTS, total_segments, i, paused, muted, status,
                   last_time, dt>>
    /\ UNCHANGED guiOnly

CliMute ==
    /\ pc = "cli_key"
    /\ muted' = ~muted
    /\ pc' = "cli_loop"
    /\ UNCHANGED <<file, SEGMENTS, total_segments, i, paused, status, duration,
                   remaining, last_time, dt>>
    /\ UNCHANGED guiOnly

\* 'q': return from main()
CliQuit ==
    /\ pc = "cli_key"
    /\ pc' = "cli_quit"
    /\ UNCHANGED <<file, SEGMENTS, total_segments, i, paused, muted, status,
                   duration, remaining, last_time, dt>>
    /\ UNCHANGED guiOnly

-----------------------------------------------------------------------------
(* The program: either shell, started on one of the segment files.  The    *)
(* editor's 's' (save) rewrites segments.txt only, which the running      *)
(* program never reads again; it changes none of the variables.            *)

Init == InitGui \/ InitCli

Next ==
    \/ Quit
    \/ KeySpace
    \/ KeyNext
    \/ KeyPrev
    \/ KeyPlus
    \/ KeyMinus
    \/ KeyMute
    \/ KeyEdit
    \/ EdExit
    \/ EdUp
    \/ EdDown
    \/ EdCol
    \/ EdBegin
    \/ EdType
    \/ EdBackspace
    \/ EdCommit
    \/ EdText
    \/ EdAdd
    \/ EdDelete
    \/ Tick
    \/ CliTime
    \/ CliExpire
    \/ CliNoKey
    \/ CliSpace
    \/ CliNext
    \/ CliPrev
    \/ CliPlus
    \/ CliMinus
    \/ CliMute
    \/ CliQuit

Spec == Init /\ [][Next]_vars

\* The graphical shell with the editor's row commands (move, add, delete)
\* and no cell edit: start and pause, next, previous, the editor, the ticks.
NextEditor ==
    \/ Quit
    \/ KeySpace
    \/ KeyNext
    \/ KeyPrev
    \/ KeyEdit
    \/ EdExit
    \/ EdUp
    \/ EdDown
    \/ EdAdd
    \/ EdDelete
    \/ Tick

SpecEditor == InitGui /\ [][NextEditor]_vars

\* Both shells without the graphical shell's segment editor: the timing
\* commands and the ticks only.
NextTiming ==
    \/ Tick
    \/ Quit
    \/ KeySpace
    \/ KeyNext
    \/ KeyPrev
    \/ KeyPlus
    \/ KeyMinus
    \/ KeyMute
    \/ CliTime
    \/ CliExpire
    \/ CliNoKey
    \/ CliSpace
    \/ CliNext
    \/ CliPrev
    \/ CliPlus
    \/ CliMinus
    \/ CliMute
    \/ CliQuit

SpecTiming == Init /\ [][NextTiming]_vars

\* The graphical shell with the editor's cell edit: start and pause, open
\* the editor and stay in it, switch column, edit and commit a cell, and
\* the ticks.
NextField ==
    \/ KeySpace
    \/ KeyEdit
    \/ EdCol
    \/ EdBegin
    \/ EdType
    \/ EdBackspace
    \/ EdCommit
    \/ EdText
    \/ Tick

\* run_gui started on a file of one row
InitField == InitGui /\ Len(SEGMENTS) = 1

SpecField == InitField /\ [][NextField]_vars

-----------------------------------------------------------------------------
(* Runs whose keys stop arriving: keys are pressed while the clock reads   *)
(* less than T0 + CmdNow, and afterwards the loops run on their own.  No   *)
(* key lengthens a segment.                                                *)

\* the clock reading from which no key is pressed
CmdNow == 4

\* the longest demo of the segment files: 12 s + 5 s
LongestDemoSecs == 17

\* a clock reading no run left to its ticks gets to before it has finished:
\* the longest demo from its start, with room for two holds and for the
\* frames that overshoot an expiry or a deadline, counted from the last key
LiveNow == CmdNow + LongestDemoSecs * Sec + 6 * HOLD

KeysOver == last_time >= T0 + CmdNow

TickLive == TickTo(T0 + LiveNow)

CliTimeLive == CliTimeTo(T0 + LiveNow)

CliExpireLive == CliExpireTo(T0 + LiveNow)

NextLive ==
    \/ TickLive
    \/ CliTimeLive
    \/ CliExpireLive
    \/ CliNoKey
    \/ ~KeysOver /\ Quit
    \/ ~KeysOver /\ KeySpace
    \/ ~KeysOver /\ KeyNext
    \/ ~KeysOver /\ KeyPrev
    \/ ~KeysOver /\ KeyMinus
    \/ ~KeysOver /\ CliSpace
    \/ ~KeysOver /\ CliNext
    \/ ~KeysOver /\ CliPrev
    \/ ~KeysOver /\ CliMinus
    \/ ~KeysOver /\ CliQuit

\* The frame loop and the terminal loop keep running and the clock keeps
\* advancing: pygame's clock.tick(60) and the terminal loop's
\* time.sleep(0.1) put real time between two readings of the clock.
Fairness ==
    /\ WF_vars(TickLive /\ dt' > 0)
    /\ SF_vars(CliTimeLive /\ dt' > 0)
    /\ WF_vars(CliExpireLive)
    /\ WF_vars(CliNoKey)

SpecLive == Init /\ [][NextLive]_vars /\ Fairness

-----------------------------------------------------------------------------
(* The terminal shell alone, on a clock that runs long enough for a second *)
(* segment to run out.                                                     *)

\* the terminal shell's clock stops advancing at T0 + TermNow units
TermNow == 17

CliTimeLong == CliTimeTo(T0 + TermNow)

CliExpireLong == CliExpireTo(T0 + TermNow)

CliNextLong == CliNextTo(T0 + TermNow)

CliPrevLong == CliPrevTo(T0 + TermNow)

NextTerminal ==
    \/ CliTimeLong
    \/ CliExpireLong
    \/ CliNoKey
    \/ CliSpace
    \/ CliNextLong
    \/ CliPrevLong
    \/ CliPlus
    \/ CliMinus
    \/ CliMute
    \/ CliQuit

SpecTerminal == InitCli /\ [][NextTerminal]_vars

\* The graphical shell started on a file of one row, with the timing
\* commands and the editor's commits to the duration cell: the name cell is
\* not edited and only the digit is typed, so that every list of a run has
\* non-negative durations only.
NextCommit ==
    \/ KeySpace
    \/ KeyNext
    \/ KeyPrev
    \/ KeyPlus
    \/ KeyMinus
    \/ KeyEdit
    \/ EdExit
    \/ EdCol
    \/ EdBegin /\ ed_sel_col = 2
    \/ EdType /\ ed_buffer' = Append(ed_buffer, "1")
    \/ EdBackspace
    \/ EdCommit
    \/ Tick

SpecCommit == InitField /\ [][NextCommit]_vars

-----------------------------------------------------------------------------
(* The import of either shell on its own: SEGMENTS = load_segments(...),   *)
(* then the fallback.  No loop local exists yet.                           *)

L_duration_name == <<"d", "u", "r", "a", "t", "i", "o", "n", ",",
                     "n", "a", "m", "e">>

L_Intro_notatime == <<"I", "n", "t", "r", "o", ",",
                      "n", "o", "t", "a", "t", "i", "m", "e">>

L_30 == <<"3", "0">>

L_12_A == <<"1", "2", ",", "A">>

L_comment == <<"#", "c", ",", "9">>

L_A_90s == <<" ", "A", ",", " ", "9", "0", "s">>

\* the lines a segments.txt is made of
LoadLines ==
    { L_header, L_duration_name, L_A12, L_B002, L_Intro_notatime, L_30,
      L_12_A, L_comment, L_A_90s }

RECURSIVE SeqsUpTo(_, _)
SeqsUpTo(S, n) ==
    IF n = 0 THEN { <<>> }
    ELSE SeqsUpTo(S, n - 1)
         \cup { Append(s, x) : s \in { t \in SeqsUpTo(S, n - 1) : Len(t) = n - 1 },
                               x \in S }

\* no file, or a file of at most MaxLines of these lines
LoadFiles == { NoFile } \cup { File(ls) : ls \in SeqsUpTo(LoadLines, MaxLines) }

InitLoad ==
    /\ file \in LoadFiles
    /\ SEGMENTS = <<>>
    /\ total_segments = 0
    /\ i = 0
    /\ paused = FALSE
    /\ muted = FALSE
    /\ status = "RUNNING"
    /\ duration = 0
    /\ remaining = 0
    /\ last_time = T0
    /\ dt = 0
    /\ completed_until = 0
    /\ demo_started = FALSE
    /\ demo_start_ts = 0
    /\ demo_end_ts = 0
    /\ editor_mode = FALSE
    /\ ed_sel_row = 0
    /\ ed_sel_col = 1
    /\ ed_editing = FALSE
    /\ ed_buffer = <<>>
    /\ running = FALSE
    /\ pc = "import"

loopLocals == <<total_segments, i, paused, muted, status, duration, remaining,
                last_time, dt, completed_until, demo_started, demo_start_ts,
                demo_end_ts, editor_mode, ed_sel_row, ed_sel_col, ed_editing,
                ed_buffer, running>>

\* SEGMENTS = load_segments(_SEGMENTS_FILE)
Load ==
    /\ pc = "import"
    /\ SEGMENTS' = load_segments(file)
    /\ pc' = "loaded"
    /\ UNCHANGED file
    /\ UNCHANGED loopLocals

\* if not SEGMENTS: SEGMENTS = [the built-in list]
Fallback ==
    /\ pc = "loaded"
    /\ SEGMENTS' = (IF SEGMENTS = <<>> THEN DEFAULT_SEGMENTS ELSE SEGMENTS)
    /\ pc' = "main"
    /\ UNCHANGED file
    /\ UNCHANGED loopLocals

NextLoad == Load \/ Fallback

SpecLoad == InitLoad /\ [][NextLoad]_vars

\* the segment list is never empty: the import falls back to the built-in
\* list and the editor keeps the last row
NeverEmpty == total_segments >= 1 /\ Len(SEGMENTS) >= 1

\* the graphical shell's previous on its own
GuiPrevious ==
    [][KeyPrev /\ i > 0
          => /\ i' = i - 1
             /\ duration' = SEGMENTS[i][2] * Sec
             /\ remaining' = SEGMENTS[i][2] * Sec
             /\ ~paused'
             /\ completed_until' = 0]_vars

-----------------------------------------------------------------------------
(* Properties.                                                             *)

\* total-demo-left of the state the loop is in
DemoLeft == total_demo_left_secs(SEGMENTS, i, remaining)

\* a tick of either shell: the frame's time update / advance / arming
\* block, or the terminal loop's timing step
TickStep == Tick \/ CliTime

\* every planned duration of the list is at least the floor of '-'
AllAtLeastFloor(segs) == \A k \in 1..Len(segs) : segs[k][2] >= FLOOR_SECS

\* the segment files whose every planned duration is at least the floor
FloorFiles == { f \in EngineFiles : AllAtLeastFloor(StartupSegments(f)) }

\* C1, as stated: whatever the initial segment list, current_duration >= 5
\* in every reachable state in which current_index < len(segments).
C1_Original ==
    i < total_segments => duration >= FLOOR_SECS * Sec

\* C1, amended: when every planned duration of the initial segment list is
\* at least 5, current_duration >= 5 holds in every reachable state in which
\* current_index < len(segments), under any sequence of increase / decrease
\* commands interleaved with ticks.
C1_DurationFloor ==
    file \in FloorFiles /\ i < total_segments
        => duration >= FLOOR_SECS * Sec

\* a decrease has cut a longer planned duration down to exactly the floor
C1_Witness ==
    /\ file \in FloorFiles
    /\ pc \in {"play", "cli_loop"}
    /\ i < total_segments
    /\ SEGMENTS[i + 1][2] > FLOOR_SECS
    /\ duration = FLOOR_SECS * Sec

\* C2, as stated: in every state with paused = true, one tick leaves
\* remaining unchanged, also while a completion hold is pending or its
\* deadline has passed.
C2_Original ==
    [][TickStep /\ paused => remaining' = remaining]_vars

\* C2, amended: in every state with paused = true, one tick leaves
\* remaining unchanged, unless the tick performs the advance transition into
\* a following segment (a hold is pending and its deadline has passed), which
\* loads that segment's planned duration into remaining.
C2_PausedTick ==
    [][TickStep /\ paused =>
          IF /\ completed_until # 0 /\ last_time >= completed_until
             /\ i + 1 < total_segments
          THEN remaining' = SEGMENTS[i + 2][2] * Sec
          ELSE remaining' = remaining]_vars

\* paused, a hold pending since an earlier frame, its deadline not reached:
\* frames have run on this state and remaining is still the 0 that `next` set
C2_Witness ==
    /\ pc = "play"
    /\ paused
    /\ completed_until # 0
    /\ completed_until - HOLD < last_time
    /\ last_time < completed_until
    /\ i + 1 < total_segments
    /\ remaining = 0

\* C3: next on segment k < N-1 arms the hold and leaves the index alone;
\* while the hold is pending and no other command arrives, a tick before the
\* deadline changes nothing of the segment and the first tick at or after
\* the deadline puts the engine on segment k+1 with remaining ==
\* current_duration == planned duration of segments[k+1].  (The terminal
\* shell's next sleeps through the hold inside the command.)
C3_NextThenAdvance ==
    [][/\ KeyNext /\ i < total_segments - 1
            => /\ i' = i
               /\ remaining' = 0
               /\ completed_until' = last_time + HOLD
       /\ Tick /\ completed_until # 0 /\ i < total_segments - 1
            => IF last_time >= completed_until
               THEN /\ i' = i + 1
                    /\ duration' = SEGMENTS[i + 2][2] * Sec
                    /\ remaining' = SEGMENTS[i + 2][2] * Sec
               ELSE /\ i' = i
                    /\ duration' = duration
                    /\ remaining' = remaining
                    /\ completed_until' = completed_until
       /\ CliNext /\ i < total_segments - 1
            => /\ i' = i + 1
               /\ duration' = SEGMENTS[i + 2][2] * Sec
               /\ remaining' = SEGMENTS[i + 2][2] * Sec]_vars

\* the second segment, freshly loaded and running, one hold after the start
\* of a demo that was never unpaused: the first segment ended by `next`
C3_Witness ==
    /\ pc = "play"
    /\ i = 1
    /\ total_segments = 2
    /\ ~demo_started
    /\ ~paused
    /\ status = "RUNNING"
    /\ completed_until = 0
    /\ last_time = T0 + HOLD
    /\ duration = SEGMENTS[2][2] * Sec
    /\ remaining = duration

\* C4: next on the last segment (k = N-1) arms the hold; with no other
\* command, a tick before the deadline keeps the index and the first tick at
\* or after the deadline reaches the terminal state, current_index = N.
\* (The terminal shell's next leaves its loop with current_index = N.)
C4_NextOnLast ==
    [][/\ KeyNext /\ i = total_segments - 1
            => /\ i' = i
               /\ remaining' = 0
               /\ completed_until' = last_time + HOLD
       /\ Tick /\ completed_until # 0 /\ i = total_segments - 1
            => IF last_time >= completed_until
               THEN i' = total_segments /\ completed_until' = 0
               ELSE i' = i /\ completed_until' = completed_until
       /\ CliNext /\ i = total_segments - 1
            => i' = total_segments /\ pc' = "cli_done"]_vars

\* the terminal state of a demo that was never unpaused: every segment,
\* the last one included, ended by `next`
C4_Witness ==
    /\ pc = "play"
    /\ i = total_segments
    /\ ~demo_started
    /\ completed_until = 0
    /\ remaining = 0
    /\ total_segments = 2

\* C5: previous on segment k > 0 sets current_index to k-1, sets
\* current_duration and remaining to the original planned duration of
\* segments[k-1], clears paused and cancels any pending completion hold.
C5_Previous ==
    [][(KeyPrev \/ CliPrev) /\ i > 0
          => /\ i' = i - 1
             /\ duration' = SEGMENTS[i][2] * Sec
             /\ remaining' = SEGMENTS[i][2] * Sec
             /\ ~paused'
             /\ completed_until' = 0]_vars

\* min(10, d - 5) and min(remaining, new duration), in units
C6_Cut(d) ==
    IF d - FLOOR_SECS * Sec < STEP_SECS * Sec
    THEN d - FLOOR_SECS * Sec ELSE STEP_SECS * Sec

C6_Clamped(r, d) == IF r < d THEN r ELSE d

\* C6, as stated: a decrease with current_duration = d > 5 reduces
\* current_duration by min(10, d-5), so that d = 12 gives 7, and sets
\* remaining to min(remaining, new current_duration), never increasing it;
\* with d <= 5 it changes neither.
C6_Original ==
    [][(KeyMinus \/ CliMinus)
          => IF duration > FLOOR_SECS * Sec
             THEN /\ duration' = duration - C6_Cut(duration)
                  /\ (duration = 12 * Sec => duration' = 7 * Sec)
                  /\ remaining' = C6_Clamped(remaining, duration')
                  /\ remaining' <= remaining
             ELSE duration' = duration /\ remaining' = remaining]_vars

\* the decrease is applied: the graphical shell ignores '-' in the terminal
\* state and while a completion hold is pending
C6_Applied ==
    \/ KeyMinus /\ i < total_segments /\ last_time >= completed_until
    \/ CliMinus

\* C6, amended: a decrease that is applied (the graphical shell ignores it
\* in the terminal state and while a hold is pending) with current_duration
\* = d > 5 reduces current_duration by min(10, d-5), so that d = 12 is cut
\* by 7 to 5, and sets remaining to min(remaining, new current_duration),
\* never increasing it; with d <= 5, or when it is not applied, it changes
\* neither.
C6_Decrease ==
    [][(KeyMinus \/ CliMinus)
          => IF C6_Applied /\ duration > FLOOR_SECS * Sec
             THEN /\ duration' = duration - C6_Cut(duration)
                  /\ (duration = 12 * Sec => duration' = 5 * Sec)
                  /\ remaining' = C6_Clamped(remaining, duration')
                  /\ remaining' <= remaining
             ELSE duration' = duration /\ remaining' = remaining]_vars

\* a 12 s segment that was never run, cut to 5 s: remaining is clamped too
C6_Witness ==
    /\ pc \in {"play", "cli_loop"}
    /\ i < total_segments
    /\ SEGMENTS[i + 1][2] = 12
    /\ duration = 5 * Sec
    /\ remaining = 5 * Sec
    /\ dt = 0
    /\ last_time = T0

\* ceil(x / Sec) for x >= 0, by its defining property
C7_Ceil(x) ==
    CHOOSE n \in 0..(x + 1) : n * Sec >= x /\ (n - 1) * Sec < x

\* the sum of the planned durations of segs[k..] (1-based)
RECURSIVE C7_SumFrom(_, _)
C7_SumFrom(segs, k) ==
    IF k > Len(segs) THEN 0 ELSE segs[k][2] + C7_SumFrom(segs, k + 1)

C7_NonNegative(segs) == \A k \in 1..Len(segs) : segs[k][2] >= 0

\* segments [(A,60),(B,45),(C,30)], i = 1, r = 10.4 s gives 41
C7_Example ==
    total_demo_left_secs(<< <<<<"A">>, 60>>, <<<<"B">>, 45>>, <<<<"C">>, 30>> >>,
                         1, 10 * Sec + (4 * Sec) \div 10) = 41

C7_Formula ==
    DemoLeft = C7_Ceil(IF remaining > 0 THEN remaining ELSE 0)
               + C7_SumFrom(SEGMENTS, i + 2)

\* C7, as stated: total-demo-left equals ceil(max(0, r)) plus the planned
\* durations of the segments strictly after i (41 in the example); it is 0 in
\* the terminal state and is never negative.
C7_Original ==
    C7_NonNegative(SEGMENTS)
        => /\ C7_Example
           /\ C7_Formula
           /\ (i = total_segments => DemoLeft = 0)
           /\ DemoLeft >= 0

\* C7, amended: for non-negative durations total-demo-left equals
\* ceil(max(0, r)) plus the planned durations of the segments strictly
\* after i (41 in the example); in the terminal state it is
\* ceil(max(0, remaining)), which is 0 when remaining <= 0; it is never
\* negative.
C7_DemoLeft ==
    C7_NonNegative(SEGMENTS)
        => /\ C7_Example
           /\ C7_Formula
           /\ (i = total_segments /\ remaining <= 0 => DemoLeft = 0)
           /\ DemoLeft >= 0

\* a fractional remaining on the first of two segments: the ceiling counts
C7_Witness ==
    /\ pc \in {"play", "cli_key"}
    /\ i = 0
    /\ total_segments = 2
    /\ remaining > 0
    /\ remaining % Sec # 0
    /\ DemoLeft = (remaining \div Sec) + 1 + SEGMENTS[2][2]

\* the data rows of the file: the kept lines as CSV rows, less the header
C9_Rows ==
    LET lines == KeptLines(file.lines)
        rows  == [k \in 1..Len(lines) |-> CsvRow(lines[k])]
    IN  IF lines = <<>> THEN <<>>
        ELSE IF IsHeader(FirstCells(rows)) THEN Tail(rows) ELSE rows

C9_HasHeader ==
    LET lines == KeptLines(file.lines)
    IN  lines # <<>>
        /\ IsHeader(FirstCells([k \in 1..Len(lines) |-> CsvRow(lines[k])]))

C9_First ==
    LET lines == KeptLines(file.lines)
    IN  FirstCells([k \in 1..Len(lines) |-> CsvRow(lines[k])])

\* the 1-based columns of the duration and of the name
C9_DurationCol == IF C9_HasHeader THEN HeaderIdx(C9_First, W_duration) ELSE 2

C9_NameCol == IF C9_HasHeader THEN NameCol(C9_First) ELSE 1

\* the row has a duration field and it parses
C9_DurationParses(row) ==
    C9_DurationCol <= Len(row) /\ parse_duration(row[C9_DurationCol]).ok

\* the row has a name column as well
C9_Valid(row) == C9_DurationParses(row) /\ C9_NameCol <= Len(row)

\* C9, as stated: load_segments returns exactly the rows whose duration
\* field parses, in file order (compared here by the durations returned).
C9_Original ==
    pc = "loaded" =>
        LET sel == SelectSeq(C9_Rows, C9_DurationParses)
        IN  [k \in 1..Len(SEGMENTS) |-> SEGMENTS[k][2]]
            = [k \in 1..Len(sel) |-> parse_duration(sel[k][C9_DurationCol]).val]

\* C9, amended: load_segments returns exactly the rows that have a name
\* column and a duration field that parses, in file order; a row with a
\* malformed or missing duration is skipped on its own and every later
\* valid row is still loaded.
C9_LoadedRows ==
    pc = "loaded" =>
        LET sel == SelectSeq(C9_Rows, C9_Valid)
        IN  SEGMENTS
            = [k \in 1..Len(sel) |->
                 <<Strip(sel[k][C9_NameCol]),
                   parse_duration(sel[k][C9_DurationCol]).val>>]

\* "Intro,notatime" followed by a valid row: only the valid row is loaded
C9_Witness ==
    /\ pc = "loaded"
    /\ file = File(<<L_Intro_notatime, L_A12>>)
    /\ SEGMENTS = << <<<<"A">>, 12>> >>

\* C10: 0 <= current_index <= len(segments) in every reachable state, under
\* any sequence of ticks, timing commands and editor insert / delete.
C10_IndexInRange ==
    0 <= i /\ i <= Len(SEGMENTS)

\* the editor has inserted a row and deleted the original one, and the demo
\* then ran to the terminal state of the edited list
C10_Witness ==
    /\ pc = "play"
    /\ Len(SEGMENTS) = 1
    /\ SEGMENTS[1] = <<W_New_Segment, NEW_SEGMENT_SECS>>
    /\ i = Len(SEGMENTS)

-----------------------------------------------------------------------------
\* the fields of the spec's TimerState that the commands and ticks work on
TimerFields ==
    <<paused, muted, demo_started, demo_start_ts, i, duration, remaining,
      completed_until>>

\* C11: the all-complete state is absorbing: once i = len(SEGMENTS), it stays
\* equal to len(SEGMENTS) under every later tick and every timing command.
C11_Absorbing ==
    [][i = Len(SEGMENTS) => i' = Len(SEGMENTS')]_vars

\* C12: in the terminal state (i >= len(SEGMENTS)) pause_toggle, next,
\* previous, increase_duration, decrease_duration and mute_toggle each leave
\* every TimerState field unchanged.
C12_TerminalNoOps ==
    [][/\ i >= Len(SEGMENTS)
       /\ \/ KeySpace \/ KeyNext \/ KeyPrev \/ KeyPlus \/ KeyMinus \/ KeyMute
          \/ CliSpace \/ CliNext \/ CliPrev \/ CliPlus \/ CliMinus \/ CliMute
       => UNCHANGED TimerFields]_vars

\* what the graphical shell's advance leaves in the four fields
C13_GuiAdvance ==
    IF i + 1 < total_segments
    THEN /\ i' = i + 1
         /\ duration' = Planned(SEGMENTS, i + 1)
         /\ remaining' = Planned(SEGMENTS, i + 1)
         /\ paused' = FALSE
    ELSE /\ i' = total_segments
         /\ duration' = duration
         /\ paused' = paused

\* what the graphical shell's previous leaves in the four fields
C13_GuiPrevious ==
    IF i > 0
    THEN /\ i' = i - 1
         /\ duration' = Planned(SEGMENTS, i - 1)
         /\ remaining' = Planned(SEGMENTS, i - 1)
         /\ paused' = FALSE
    ELSE UNCHANGED <<i, duration, remaining, paused>>

\* the four fields as run_gui sets them before its first frame
C13_SameStart ==
    /\ i = 0
    /\ duration = Planned(SEGMENTS, 0)
    /\ remaining = Planned(SEGMENTS, 0)
    /\ paused = TRUE

\* each step of the terminal shell changes the four fields as the graphical
\* shell changes them for the same command or tick (a next or an expiry
\* compared once the graphical shell's hold is over)
C13_SameStep ==
    /\ CliTime => /\ remaining' = (IF paused THEN remaining ELSE remaining - dt')
                  /\ UNCHANGED <<i, duration, paused>>
    /\ CliSpace => paused' = ~paused /\ UNCHANGED <<i, duration, remaining>>
    /\ CliNext => C13_GuiAdvance
    /\ CliExpire => C13_GuiAdvance
    /\ CliPrev => C13_GuiPrevious
    /\ CliPlus => /\ duration' = duration + STEP_SECS * Sec
                  /\ remaining' = remaining + STEP_SECS * Sec
                  /\ UNCHANGED <<i, paused>>
    /\ CliMinus => /\ IF duration > FLOOR_SECS * Sec
                      THEN /\ duration' = duration - C6_Cut(duration)
                           /\ remaining' = C6_Clamped(remaining, duration')
                      ELSE UNCHANGED <<duration, remaining>>
                   /\ UNCHANGED <<i, paused>>
    /\ CliMute \/ CliNoKey => UNCHANGED <<i, duration, remaining, paused>>

\* C13: the terminal shell and the graphical shell implement the same
\* segment-timing semantics: from the same segment list they start with the
\* same index, duration, remaining and paused, and every command and tick
\* changes these four the same way in both (compared where no hold is
\* pending).
C13_SameSemantics ==
    C13_SameStart /\ [][C13_SameStep]_vars

\* C14: while editor mode is active in the graphical shell the countdown is
\* suspended: no tick decreases remaining and no tick changes i, whatever
\* state (a pending completion hold included) the editor was entered from.
C14_EditorSuspends ==
    [][Tick /\ editor_mode => remaining' >= remaining /\ i' = i]_vars

\* C15: tick with dt = 0 is an idempotent no-op: in every reachable state it
\* leaves the TimerState unchanged.
C15_Original ==
    [][/\ Tick /\ dt = 0 => UNCHANGED <<TimerFields, demo_end_ts>>
       /\ CliTime /\ dt' = 0 => UNCHANGED <<TimerFields, demo_end_ts>>]_vars

\* C15, amended: a tick with dt = 0 leaves the TimerState unchanged, except
\* that on a segment with remaining <= 0 and no hold pending it arms the hold
\* (deadline = now + 0.6 s) and changes nothing else; a second tick with
\* dt = 0 then finds nothing to arm and nothing to advance, so applying it
\* twice yields the same state as applying it once.
C15_TickZero ==
    [][/\ Tick /\ dt = 0
          => /\ IF Arms(i, remaining, completed_until)
                THEN completed_until' = last_time + HOLD
                ELSE completed_until' = completed_until
             /\ UNCHANGED <<paused, muted, demo_started, demo_start_ts, i,
                            duration, remaining, demo_end_ts>>
             /\ dt' = 0 => ~Advances' /\ ~Arms(i', remaining', completed_until')
       /\ CliTime /\ dt' = 0 => UNCHANGED <<TimerFields, demo_end_ts>>]_vars

\* a frame with dt = 0 is at its tail on the zero-length segment Z (reached
\* by p from the summary screen) with remaining = 0 and no hold pending: the
\* tick arms the hold
C15_Witness ==
    /\ pc = "play"
    /\ SEGMENTS = <<<<<<"A">>, 1>>, <<<<"Z">>, 0>>>>
    /\ i = 1
    /\ dt = 0
    /\ remaining = 0
    /\ completed_until = 0
    /\ ENABLED Tick

\* C16: every segment's planned duration is an integer >= 0 and the sum of
\* the segment durations is never negative, for every loaded list and after
\* every editor duration commit.
C16_NonNegative ==
    /\ \A k \in 1..Len(SEGMENTS) : SEGMENTS[k][2] >= 0
    /\ SumSecs(SEGMENTS) >= 0

\* C17: previous has an effect only if i > 0: applied at i = 0 it leaves i,
\* duration, remaining and paused unchanged, in both shells.
C17_PreviousAtZero ==
    [][(KeyPrev \/ CliPrev) /\ i = 0
          => UNCHANGED <<i, duration, remaining, paused>>]_vars

\* a completion hold is pending and the frame's clock has reached its deadline
C18_Due == completed_until # 0 /\ last_time >= completed_until

\* C18, as stated: a tick of the graphical shell arms a hold (deadline = now
\* + 0.6 s, status COMPLETED) exactly when remaining <= 0, i < len(SEGMENTS)
\* and no hold is pending; it increments i only when a hold is pending and
\* now >= its deadline, and it clears the deadline in that same step.
C18_Original ==
    [][Tick =>
         /\ completed_until = 0 /\ i' < total_segments /\ remaining' <= 0
               => completed_until' = last_time + HOLD /\ status' = "COMPLETED"
         /\ completed_until = 0 /\ ~(i' < total_segments /\ remaining' <= 0)
               => completed_until' = 0
         /\ completed_until # 0 /\ ~C18_Due
               => completed_until' = completed_until
         /\ i' # i => C18_Due /\ i' = i + 1
         /\ C18_Due => completed_until' = 0]_vars

\* C18, amended: a tick arms a hold exactly when, after its own time update
\* and advance, remaining <= 0, i < len(SEGMENTS) and no hold is pending; it
\* increments i only when a hold is pending and now >= its deadline, and it
\* clears that deadline in the same step; when the segment it advances into
\* has no time left, the same tick arms the hold of that segment.  A pending
\* hold is never armed again by a tick.
C18_ArmAdvance ==
    [][Tick =>
         /\ (completed_until = 0 \/ C18_Due)
               /\ i' < total_segments /\ remaining' <= 0
               => completed_until' = last_time + HOLD /\ status' = "COMPLETED"
         /\ (completed_until = 0 \/ C18_Due)
               /\ ~(i' < total_segments /\ remaining' <= 0)
               => completed_until' = 0
         /\ completed_until # 0 /\ ~C18_Due
               => completed_until' = completed_until
         /\ i' # i => C18_Due /\ i' = i + 1]_vars

\* the advance out of segment A has loaded the zero-length segment Z and
\* armed its hold in the same frame: the new deadline is 0.6 s after the
\* deadline of A's hold (armed by a next in the first frame)
C18_Witness ==
    /\ pc = "play"
    /\ SEGMENTS = <<<<<<"A">>, 1>>, <<<<"Z">>, 0>>>>
    /\ i = 1
    /\ duration = 0
    /\ remaining = 0
    /\ status = "COMPLETED"
    /\ ~paused
    /\ ~demo_started
    /\ completed_until = T0 + HOLD + HOLD

\* C19: while a completion hold is pending (deadline set and not yet passed)
\* completion is not re-triggered: no command other than previous changes
\* completed_until.
C19_HoldKept ==
    [][/\ completed_until # 0 /\ last_time < completed_until
       /\ KeySpace \/ KeyNext \/ KeyPlus \/ KeyMinus \/ KeyMute
       => completed_until' = completed_until]_vars

\* C20: in the graphical shell, while a completion hold is pending and now <
\* completed_until, pause_toggle, increase_duration and decrease_duration
\* are suppressed: each leaves paused, demo_started, duration and remaining
\* unchanged.
C20_Suppressed ==
    [][/\ completed_until # 0 /\ last_time < completed_until
       /\ KeySpace \/ KeyPlus \/ KeyMinus
       => UNCHANGED <<paused, demo_started, duration, remaining>>]_vars

\* play mode, 0.4 s into the hold that ended the running first segment: the
\* keys are read and the deadline has not passed
C20_Witness ==
    /\ pc = "play"
    /\ i = 0
    /\ ~paused
    /\ demo_started
    /\ status = "COMPLETED"
    /\ completed_until = last_time + 1
    /\ dt = 2

-----------------------------------------------------------------------------
\* every variable but muted
C21_Rest ==
    <<file, SEGMENTS, total_segments, i, paused, status, duration, remaining,
      last_time, dt, completed_until, demo_started, demo_start_ts,
      demo_end_ts, editor_mode, ed_sel_row, ed_sel_col, ed_editing,
      ed_buffer, running, pc>>

\* the state that differs from this one in muted only (a device of the
\* property: no shell takes this step)
C21_Twin == muted' = ~muted /\ UNCHANGED C21_Rest

\* a step of A is matched from the twin state: A, taken there with the
\* same clock reading, leaves the same value in every variable but muted,
\* and leaves muted alone
C21_Matched(A) ==
    A => \E t \in {C21_Rest'} :
            ENABLED (C21_Twin
                     /\ (ENABLED (A /\ C21_Rest' = t /\ muted' = muted))')

\* C21: mute does not affect timing.  A mute toggle changes muted only (in
\* the terminal shell it uses up the iteration's key poll, as no key does),
\* and every tick and every other command does from a state what it does
\* from the state that differs in muted only: so two runs fed the same
\* ticks and commands, apart from mute toggles, agree on i, duration,
\* remaining, paused and completed_until at every step.
C21_MuteBlind ==
    [][/\ KeyMute => muted' = ~muted /\ UNCHANGED C21_Rest
       /\ CliMute => /\ muted' = ~muted
                     /\ \E t \in {C21_Rest'} :
                           ENABLED (CliNoKey /\ C21_Rest' = t)
       /\ C21_Matched(Tick)
       /\ C21_Matched(Quit)
       /\ C21_Matched(KeySpace)
       /\ C21_Matched(KeyNext)
       /\ C21_Matched(KeyPrev)
       /\ C21_Matched(KeyPlus)
       /\ C21_Matched(KeyMinus)
       /\ C21_Matched(CliTime)
       /\ C21_Matched(CliExpire)
       /\ C21_Matched(CliNoKey)
       /\ C21_Matched(CliSpace)
       /\ C21_Matched(CliNext)
       /\ C21_Matched(CliPrev)
       /\ C21_Matched(CliPlus)
       /\ C21_Matched(CliMinus)
       /\ C21_Matched(CliQuit)]_vars

\* the second segment is counting down in a run that was muted on the way
C21_Witness ==
    /\ pc = "play"
    /\ muted
    /\ i = 1
    /\ ~paused
    /\ completed_until = 0
    /\ 0 < remaining /\ remaining < duration

C22_DeleteConsistent ==
    [][/\ EdDelete /\ i < total_segments /\ ed_sel_row # i
          => i' < total_segments' /\ SEGMENTS'[i' + 1] = SEGMENTS[i + 1]
       /\ EdDelete /\ i' < total_segments'
          => /\ duration' = Planned(SEGMENTS', i')
             /\ remaining' = Planned(SEGMENTS', i')]_vars

\* the loop of either shell is running
C23_Looping == pc \in {"play", "cli_loop", "cli_key"}

\* C23: from any non-terminal state with paused = false, if no further
\* commands arrive and ticks with dt > 0 keep occurring, the engine visits
\* each later segment in order (the index moves one segment at a time) and
\* eventually reaches the terminal state i = len(SEGMENTS).
C23_Finishes ==
    /\ [][KeysOver => i' = i \/ i' = i + 1]_vars
    /\ (KeysOver /\ C23_Looping /\ ~paused /\ i < total_segments)
          ~> (i = total_segments)

\* the graphical shell has finished the two segments of the file "A,12",
\* "B,5" after the last key: the end of the demo is stamped 12 s + 0.6 s
\* + 5 s + 0.6 s or more after its start
C23_Witness ==
    /\ pc = "play"
    /\ SEGMENTS = <<<<<<"A">>, 12>>, <<<<"B">>, 5>>>>
    /\ i = total_segments
    /\ demo_started
    /\ demo_end_ts - demo_start_ts >= 17 * Sec + 2 * HOLD

\* the graphical shell's loop is running (the terminal shell has no stamps)
C24_Gui == pc \in {"play", "editor", "drained"}

\* C24: in the graphical shell, whenever the countdown is running (i <
\* len(SEGMENTS), paused false, no hold pending), demo_started is true and
\* demo_start_ts has been stamped.
C24_RunningIsStarted ==
    C24_Gui /\ i < total_segments /\ ~paused /\ completed_until = 0
       => demo_started /\ demo_start_ts # 0

\* C25: in the terminal shell, a previous processed on segment k > 0 always
\* makes segment k - 1 the next active segment, also when the clock update
\* of the same loop iteration has driven remaining <= 0.
C25_StepsBack ==
    [][CliPrevLong /\ i > 0 => i' = i - 1]_vars

\* C26: an editor delete in any reachable state of the graphical shell, the
\* terminal state i = len(SEGMENTS) included, completes without indexing the
\* segment list out of range: the reload from SEGMENTS[i] never faults.
C26_DeleteCompletes == pc # "crashed"

\* the state '+' and then '-' leave: duration d and remaining r.  In the
\* terminal shell the two keys are read in two iterations of the loop; the
\* clock update between them is one of delta 0.
C27_PairGives(d, r) ==
    \/ ENABLED (KeyPlus
                /\ (ENABLED (KeyMinus /\ duration' = d /\ remaining' = r))')
    \/ ENABLED (CliPlus
                /\ (ENABLED (/\ CliTime /\ dt' = 0
                             /\ (ENABLED (/\ CliMinus
                                          /\ duration' = d
                                          /\ remaining' = r))'))')

\* '+' can be pressed on a segment of duration >= 5 s with no hold pending
C27_Pre ==
    /\ i < total_segments
    /\ completed_until = 0
    /\ duration >= FLOOR_SECS * Sec
    /\ ENABLED (KeyPlus \/ CliPlus)

\* C27, as stated: for duration >= 5 and no hold pending, '+' followed
\* immediately by '-' restores duration and leaves remaining unchanged.
C27_Original ==
    C27_Pre => \E d \in {duration}, r \in {remaining} : C27_PairGives(d, r)

\* C27, amended: for duration >= 5 and no hold pending, '+' followed
\* immediately by '-' restores duration and leaves remaining at
\* min(remaining + 10, duration): the pair gives back up to 10 s of the time
\* already counted down, never more than the duration.
C27_PlusMinus ==
    C27_Pre =>
       \E d \in {duration}, r \in {Min(remaining + STEP_SECS * Sec, duration)} :
          C27_PairGives(d, r)

\* 0.4 s into a running segment of the graphical shell: '+' and then '-'
\* give the 0.4 s back
C27_Witness ==
    /\ pc = "play"
    /\ C27_Pre
    /\ ~paused
    /\ remaining = duration - 2
    /\ \E d \in {duration} : C27_PairGives(d, d)

\* C28: for segment lists with non-negative durations (no run of the
\* specification has another list), remaining <= duration in every
\* reachable state of the graphical shell, after any sequence of ticks,
\* timing commands and editor commits.
C28_RemainingWithinDuration ==
    /\ C7_NonNegative(SEGMENTS)
    /\ C24_Gui => remaining <= duration

\* the editor has committed 1 s to the active row Y of 2 s while more than
\* 1 s was left: the duration is 1 s and remaining was clamped to it
C28_Witness ==
    /\ pc = "editor"
    /\ ~ed_editing
    /\ SEGMENTS = <<<<<<"Y">>, 1>>>>
    /\ i = 0
    /\ duration = Sec
    /\ remaining = Sec
    /\ completed_until = 0

\* C29: a single tick advances i by at most one and discards the overshoot:
\* the segment it advances into starts with remaining equal to its full
\* planned duration, whatever negative value remaining had, and no tick
\* increases total-demo-left.
C29_OvershootDiscarded ==
    [][TickLive \/ CliTimeLive \/ CliExpireLive
          => /\ i' = i \/ i' = i + 1
             /\ i' = i + 1 /\ i' < total_segments
                   => remaining' = Planned(SEGMENTS, i')
             /\ DemoLeft' <= DemoLeft]_vars

\* the running first segment has run over by 0.2 s, its hold has reached
\* the deadline, and the frame is about to advance into the next segment
C29_Witness ==
    /\ pc = "play"
    /\ i + 1 < total_segments
    /\ ~paused
    /\ remaining < 0
    /\ completed_until # 0
    /\ last_time >= completed_until
    /\ ENABLED TickLive
=============================================================================
